---- MODULE Spec2Model ----
(***************************************************************************)
(* Support-chat subsystem of guzalm/goprog (src/main.go).                  *)
(*                                                                         *)
(* One goroutine per /ws request runs handleConnections; one goroutine     *)
(* runs handleMessages (the hub); /create-chat and /close-chat requests    *)
(* run CreateChatHandler and CloseChatHandler against the chats table.     *)
(* The registry `clients` is guarded by the mutex `mu`; handlers hand      *)
(* messages to the hub over the unbuffered channel `broadcast`.            *)
(***************************************************************************)
EXTENDS Integers, Sequences, FiniteSets, TLC

(* ------------------------------ bounds -------------------------------- *)

\* number of /ws requests (connection slots) considered
NConns == 2
\* number of /create-chat requests considered
NReqs == 2
\* total number of frames the clients send over all connections
MaxFrames == 1

Conns == 1..NConns
Reqs == 1..NReqs
\* chat ids a /close-chat request may name: every id the table can hold
CloseIds == 1..NReqs
\* chat ids a websocket client names: A's chat and B's chat
ChatIds == {1, 2}

Users == {"A", "B"}
NoCookie == "-"
\* message texts, as character sequences: empty, whitespace only, a word
Contents == {<< >>, <<" ">>, <<"h", "i">>}

\* who opens a websocket: the admin panel (role admin, no chat of its own),
\* chat.html opened with ?chatID=k&role=user by the logged-in owner of
\* chat k, and the same page opened by somebody who has no username cookie
ConnKinds == {[role |-> "admin", chat |-> 0, session |-> TRUE],
              [role |-> "user", chat |-> 1, session |-> TRUE],
              [role |-> "user", chat |-> 2, session |-> TRUE],
              [role |-> "user", chat |-> 1, session |-> FALSE]}
NoInfo == [role |-> "none", chat |-> 0, session |-> FALSE]

\* the inbound JSON frames of a client: the pages set sender to their role
\* (chat.html:26); chatId and content are whatever the client puts there
Frames(k) == [chatId : ChatIds, sender : {k.role}, content : Contents]
\* Message value of a handler or the hub; row is the messages row the
\* INSERT made for it (0: none), which the Go value itself does not carry
NoMsg == [chatId |-> 0, sender |-> "none", content |-> << >>, row |-> 0]

Free == 0
Hub == NConns + 1

(* ------------------------------- state -------------------------------- *)

VARIABLES
    process,    \* "running" | "exited" (os.Exit through log.Fatalf)
    chats,      \* table chats: row i is [user_id, status], id = i
    messages,   \* table messages: row i is [chat_id, sender, content,
                \* timestamp]
    clients,    \* the registry map, as the set of its keys
    mu,         \* holder of the mutex: Free, a connection, or Hub
    pc,         \* position of each handleConnections goroutine
    open,       \* whether the websocket of a connection is still usable
    info,       \* the client behind each connection (kind and cookie)
    msg,        \* local variable msg of each handleConnections goroutine
    inbox,      \* frames written to each connection by WriteJSON
    quota,      \* frames the clients have yet to send
    hubPc,      \* position of the handleMessages goroutine
    hubMsg,     \* local variable msg of handleMessages
    ranged,     \* keys the hub's range loop has visited in this pass
    visited,    \* keys the range loop of each handleWebSocket goroutine has
                \* visited (the handler of templates/index.html)
    req,        \* the /create-chat requests
    closeResp   \* the last /close-chat request and its response

vars == <<process, chats, messages, clients, mu, pc, open, info, msg, inbox,
          quota, hubPc, hubMsg, ranged, visited, req, closeResp>>

dbVars == <<chats, messages>>
connVars == <<pc, open, info, msg, quota>>
hubVars == <<hubPc, hubMsg, ranged>>
httpVars == <<req, closeResp>>

NoReq == [pc |-> "idle", user |-> NoCookie, chatID |-> 0, code |-> 0]

\* who sends a /close-chat request: a user by the username cookie, a user
\* whose role is admin, or somebody who is not logged in
Actors == Users \cup {"admin", NoCookie}
\* a /close-chat exchange: the status code answered and, for a request that
\* got as far as the UPDATE and the redirect, the chat id it named, who
\* sent it, and whether that chat was closed already
Refused(code) ==
    [code |-> code, chatID |-> 0, actor |-> NoCookie, again |-> FALSE]
NoClose == Refused(0)

\* the process as main starts it: nothing registered, nobody connected;
\* q is the number of frames the clients are going to send
Started(q) ==
    /\ process = "running"
    /\ clients = {}
    /\ mu = Free
    /\ pc = [c \in Conns |-> "idle"]
    /\ open = [c \in Conns |-> FALSE]
    /\ info = [c \in Conns |-> NoInfo]
    /\ msg = [c \in Conns |-> NoMsg]
    /\ inbox = [c \in Conns |-> << >>]
    /\ quota = q
    /\ hubPc = "recv"
    /\ hubMsg = NoMsg
    /\ ranged = {}
    /\ visited = [c \in Conns |-> {}]
    /\ req = [r \in Reqs |-> NoReq]
    /\ closeResp = NoClose

\* ... over the tables initDB creates, empty
Init ==
    /\ Started(MaxFrames)
    /\ chats = << >>
    /\ messages = << >>

Running == process = "running"

\* connection and request slots are taken in the order requests arrive
NextConn(c) == pc[c] = "idle" /\ \A d \in 1..(c - 1) : pc[d] # "idle"
NextReq(r) == req[r].pc = "idle" /\ \A q \in 1..(r - 1) : req[q].pc # "idle"

\* os.Exit(1): every goroutine, connection and in-memory value is gone;
\* only the database tables outlive the process
Exit ==
    /\ process' = "exited"
    /\ clients' = {}
    /\ mu' = Free
    /\ pc' = [c \in Conns |-> "done"]
    /\ open' = [c \in Conns |-> FALSE]
    /\ info' = [c \in Conns |-> NoInfo]
    /\ msg' = [c \in Conns |-> NoMsg]
    /\ inbox' = [c \in Conns |-> << >>]
    /\ quota' = 0
    /\ hubPc' = "done"
    /\ hubMsg' = NoMsg
    /\ ranged' = {}
    /\ visited' = [c \in Conns |-> {}]
    /\ req' = [r \in Reqs |-> NoReq]
    /\ closeResp' = NoClose

(* ------------------------- handleConnections -------------------------- *)

\* upgrader.Upgrade: a request that is no websocket handshake fails, and
\* the handler answers that with log.Fatalf, which exits the process.
\* No cookie is looked at: the request is admitted with or without one.
Upgrade(c) ==
    /\ Running
    /\ NextConn(c)
    /\ \E k \in ConnKinds, handshake \in BOOLEAN :
          IF handshake
          THEN /\ info' = [info EXCEPT ![c] = k]
               /\ open' = [open EXCEPT ![c] = TRUE]
               /\ pc' = [pc EXCEPT ![c] = "register"]
               /\ UNCHANGED <<process, clients, mu, msg, inbox, quota,
                              hubVars, visited, httpVars>>
          ELSE Exit
    /\ UNCHANGED dbVars

\* Register as it would be if the handler wrote the map without mu.Lock()
Register_NoLock(c) ==
    /\ Running
    /\ pc[c] = "register"
    /\ mu' = c
    /\ clients' = clients \cup {c}
    /\ pc' = [pc EXCEPT ![c] = "registered"]
    /\ UNCHANGED <<process, dbVars, open, info, msg, inbox, quota, hubVars,
                   httpVars>>
    /\ UNCHANGED visited

\* mu.Lock(); clients[ws] = true
Register(c) ==
    /\ Running
    /\ pc[c] = "register"
    /\ mu = Free
    /\ mu' = c
    /\ clients' = clients \cup {c}
    /\ pc' = [pc EXCEPT ![c] = "registered"]
    /\ UNCHANGED <<process, dbVars, open, info, msg, inbox, quota, hubVars,
                   httpVars>>
    /\ UNCHANGED visited

\* mu.Unlock() after the registration
RegisterUnlock(c) ==
    /\ Running
    /\ pc[c] = "registered"
    /\ mu = c
    /\ mu' = Free
    /\ pc' = [pc EXCEPT ![c] = "read"]
    /\ UNCHANGED <<process, dbVars, clients, open, info, msg, inbox, quota,
                   hubVars, httpVars>>
    /\ UNCHANGED visited

\* ReadJSON as it would be if the handler echoed each frame to its client
ReadJSON_Echo(c) ==
    /\ Running
    /\ pc[c] = "read"
    /\ \/ /\ open[c]
          /\ quota > 0
          /\ quota' = quota - 1
          /\ \E f \in Frames(info[c]) :
                /\ msg' = [msg EXCEPT ![c] =
                              [chatId |-> f.chatId, sender |-> f.sender,
                               content |-> f.content, row |-> 0]]
                /\ inbox' = [inbox EXCEPT ![c] = Append(@, msg'[c])]
          /\ pc' = [pc EXCEPT ![c] = "insert"]
       \/ /\ pc' = [pc EXCEPT ![c] = "deregister"]
          /\ UNCHANGED <<msg, quota, inbox>>
    /\ UNCHANGED <<process, dbVars, clients, mu, open, info, hubVars,
                   httpVars>>
    /\ UNCHANGED visited

\* ws.ReadJSON(&msg): the next frame of the client decodes into msg; or
\* the read fails, which it can at any time (the peer left, the frame is
\* no JSON) and always does once the server side has closed the socket.
\* Nothing else is looked at: content is taken as it comes, chatId as the
\* client wrote it.
ReadJSON(c) ==
    /\ Running
    /\ pc[c] = "read"
    /\ \/ /\ open[c]
          /\ quota > 0
          /\ quota' = quota - 1
          /\ \E f \in Frames(info[c]) :
                msg' = [msg EXCEPT ![c] =
                           [chatId |-> f.chatId, sender |-> f.sender,
                            content |-> f.content, row |-> 0]]
          /\ pc' = [pc EXCEPT ![c] = "insert"]
       \/ /\ pc' = [pc EXCEPT ![c] = "deregister"]
          /\ UNCHANGED <<msg, quota>>
    /\ UNCHANGED <<process, dbVars, clients, mu, open, info, inbox, hubVars,
                   httpVars>>
    /\ UNCHANGED visited

\* timestamp TIMESTAMP DEFAULT CURRENT_TIMESTAMP: what the database clock
\* reads when a row is inserted. Two rows can get the same reading; only
\* the order of the readings matters, so the first row gets 1 and a later
\* row the reading of the row before it or the next one.
CURRENT_TIMESTAMP ==
    IF messages = << >>
    THEN {1}
    ELSE {messages[Len(messages)].timestamp,
          messages[Len(messages)].timestamp + 1}

\* InsertMessage as it would be if the row got the chat of the connection
\* in place of the frame's chatId
InsertMessage_OwnChat(c) ==
    /\ Running
    /\ pc[c] = "insert"
    /\ \/ /\ \E ts \in CURRENT_TIMESTAMP :
                messages' = Append(messages,
                   [chat_id |-> info[c].chat, sender |-> msg[c].sender,
                    content |-> msg[c].content, timestamp |-> ts])
          /\ msg' = [msg EXCEPT ![c].row = Len(messages) + 1]
       \/ UNCHANGED <<messages, msg>>
    /\ pc' = [pc EXCEPT ![c] = "send"]
    /\ UNCHANGED <<process, chats, clients, mu, open, info, inbox, quota,
                   hubVars, httpVars>>
    /\ UNCHANGED visited

\* InsertMessage as it would be if a failed INSERT ended the read loop
InsertMessage_FailBreaks(c) ==
    /\ Running
    /\ pc[c] = "insert"
    /\ \/ /\ \E ts \in CURRENT_TIMESTAMP :
                messages' = Append(messages,
                   [chat_id |-> msg[c].chatId, sender |-> msg[c].sender,
                    content |-> msg[c].content, timestamp |-> ts])
          /\ msg' = [msg EXCEPT ![c].row = Len(messages) + 1]
          /\ pc' = [pc EXCEPT ![c] = "send"]
       \/ /\ pc' = [pc EXCEPT ![c] = "deregister"]
          /\ UNCHANGED <<messages, msg>>
    /\ UNCHANGED <<process, chats, clients, mu, open, info, inbox, quota,
                   hubVars, httpVars>>
    /\ UNCHANGED visited

\* db.Exec("INSERT INTO messages ..."): the row is stored, or the statement
\* fails and the error is logged; either way the handler goes on to send.
\* The table has no foreign key and the chat's status is not read.
InsertMessage(c) ==
    /\ Running
    /\ pc[c] = "insert"
    /\ \/ /\ \E ts \in CURRENT_TIMESTAMP :
                messages' = Append(messages,
                   [chat_id |-> msg[c].chatId, sender |-> msg[c].sender,
                    content |-> msg[c].content, timestamp |-> ts])
          /\ msg' = [msg EXCEPT ![c].row = Len(messages) + 1]
       \/ UNCHANGED <<messages, msg>>
    /\ pc' = [pc EXCEPT ![c] = "send"]
    /\ UNCHANGED <<process, chats, clients, mu, open, info, inbox, quota,
                   hubVars, httpVars>>
    /\ UNCHANGED visited

\* broadcast <- msg meeting msg := <-broadcast: the channel has no buffer,
\* so the send completes exactly when the hub takes the value. The handler
\* loops to a new `var msg Message`.
BroadcastSend(c) ==
    /\ Running
    /\ pc[c] = "send"
    /\ hubPc = "recv"
    /\ hubMsg' = msg[c]
    /\ hubPc' = "lock"
    /\ pc' = [pc EXCEPT ![c] = "read"]
    /\ msg' = [msg EXCEPT ![c] = NoMsg]
    /\ UNCHANGED <<process, dbVars, clients, mu, open, info, inbox, quota,
                   ranged, httpVars>>
    /\ UNCHANGED visited

\* Deregister as it would be if deleting a key the map no longer has
\* emptied the map
Deregister_DropsAll(c) ==
    /\ Running
    /\ pc[c] = "deregister"
    /\ mu = Free
    /\ mu' = c
    /\ clients' = IF c \in clients THEN clients \ {c} ELSE {}
    /\ pc' = [pc EXCEPT ![c] = "deregistered"]
    /\ UNCHANGED <<process, dbVars, open, info, msg, inbox, quota, hubVars,
                   httpVars>>
    /\ UNCHANGED visited

\* read error: mu.Lock(); delete(clients, ws)
Deregister(c) ==
    /\ Running
    /\ pc[c] = "deregister"
    /\ mu = Free
    /\ mu' = c
    /\ clients' = clients \ {c}
    /\ pc' = [pc EXCEPT ![c] = "deregistered"]
    /\ UNCHANGED <<process, dbVars, open, info, msg, inbox, quota, hubVars,
                   httpVars>>
    /\ UNCHANGED visited

\* mu.Unlock(); break; and the deferred ws.Close()
DeregisterUnlock(c) ==
    /\ Running
    /\ pc[c] = "deregistered"
    /\ mu = c
    /\ mu' = Free
    /\ pc' = [pc EXCEPT ![c] = "done"]
    /\ open' = [open EXCEPT ![c] = FALSE]
    /\ UNCHANGED <<process, dbVars, clients, info, msg, inbox, quota,
                   hubVars, httpVars>>
    /\ UNCHANGED visited

(* ---------------------------- fetchMessages --------------------------- *)

\* the rows WHERE chat_id = $1 selects, by their id
RowsOf(chatID) == {i \in DOMAIN messages : messages[i].chat_id = chatID}

\* SELECT ... FROM messages WHERE chat_id = $1 ORDER BY timestamp ASC:
\* the results the query can give, each the ids of the chat's rows in the
\* order returned. ORDER BY names the timestamp alone, so rows of equal
\* timestamp come in whatever order the database produces them.
fetchMessages(chatID) ==
    {s \in [1..Cardinality(RowsOf(chatID)) -> RowsOf(chatID)] :
        /\ \A i, j \in DOMAIN s : i # j => s[i] # s[j]
        /\ \A i, j \in DOMAIN s :
              i < j => messages[s[i]].timestamp <= messages[s[j]].timestamp}

(* --------------------------- handleMessages --------------------------- *)

\* mu.Lock() and the start of `for client := range clients`
HubLock ==
    /\ Running
    /\ hubPc = "lock"
    /\ mu = Free
    /\ mu' = Hub
    /\ hubPc' = "range"
    /\ UNCHANGED <<process, dbVars, clients, connVars, inbox, hubMsg, ranged,
                   httpVars>>
    /\ UNCHANGED visited

\* WriteJSON as it would be if the hub wrote to staff connections only
WriteJSON_StaffOnly(c) ==
    /\ Running
    /\ hubPc = "range"
    /\ c \in clients \ ranged
    /\ ranged' = ranged \cup {c}
    /\ \/ /\ open[c]
          /\ inbox' = [inbox EXCEPT ![c] =
                          IF info[c].role = "admin" THEN Append(@, hubMsg)
                          ELSE @]
          /\ UNCHANGED <<clients, open>>
       \/ /\ clients' = clients \ {c}
          /\ open' = [open EXCEPT ![c] = FALSE]
          /\ UNCHANGED inbox
    /\ UNCHANGED <<process, dbVars, mu, pc, info, msg, quota, hubPc, hubMsg,
                   httpVars>>
    /\ UNCHANGED visited

\* WriteJSON as it would be if a failed write ended the range loop
WriteJSON_StopsOnError(c) ==
    /\ Running
    /\ hubPc = "range"
    /\ c \in clients \ ranged
    /\ \/ /\ open[c]
          /\ ranged' = ranged \cup {c}
          /\ inbox' = [inbox EXCEPT ![c] = Append(@, hubMsg)]
          /\ UNCHANGED <<clients, open>>
       \/ /\ ranged' = ranged \cup clients
          /\ clients' = clients \ {c}
          /\ open' = [open EXCEPT ![c] = FALSE]
          /\ UNCHANGED inbox
    /\ UNCHANGED <<process, dbVars, mu, pc, info, msg, quota, hubPc, hubMsg,
                   httpVars>>
    /\ UNCHANGED visited

\* one iteration of the range loop, over a key not yet visited (Go fixes
\* no order): client.WriteJSON(msg) puts the frame on the connection; or
\* it fails, which it can at any time and always does on a socket the
\* server side has closed, and then client.Close() and delete
WriteJSON(c) ==
    /\ Running
    /\ hubPc = "range"
    /\ c \in clients \ ranged
    /\ ranged' = ranged \cup {c}
    /\ \/ /\ open[c]
          /\ inbox' = [inbox EXCEPT ![c] = Append(@, hubMsg)]
          /\ UNCHANGED <<clients, open>>
       \/ /\ clients' = clients \ {c}
          /\ open' = [open EXCEPT ![c] = FALSE]
          /\ UNCHANGED inbox
    /\ UNCHANGED <<process, dbVars, mu, pc, info, msg, quota, hubPc, hubMsg,
                   httpVars>>
    /\ UNCHANGED visited

\* the range is exhausted: mu.Unlock(), back to the receive
HubUnlock ==
    /\ Running
    /\ hubPc = "range"
    /\ clients \subseteq ranged
    /\ mu' = Free
    /\ hubPc' = "recv"
    /\ hubMsg' = NoMsg
    /\ ranged' = {}
    /\ UNCHANGED <<process, dbVars, clients, connVars, inbox, httpVars>>
    /\ UNCHANGED visited

(* ------------- handleWebSocket (templates/index.html) ---------------- *)

\* The connection handler of the Go source in templates/index.html. It
\* shares no code with handleConnections: there is no mutex and no hub, a
\* handler fans each message out itself. sendNotifications ranges over the
\* same map on a receive from `notifications`, a channel nothing in the
\* source sends on, so that goroutine never gets past its receive.

\* the other handlers that are inside their range loop over clients
Ranging(c) == {d \in Conns \ {c} : pc[d] = "range"}

\* a write to the map while another goroutine iterates over it is a data
\* race: the Go runtime may stop the process ("fatal error: concurrent map
\* iteration and map write") or may not notice
MapRace(c) ==
    /\ Ranging(c) # {}
    /\ Exit
    /\ UNCHANGED dbVars

\* upgrader.Upgrade; a failed upgrade is printed and the handler returns
wsUpgrade(c) ==
    /\ Running
    /\ NextConn(c)
    /\ \E handshake \in BOOLEAN :
          IF handshake
          THEN /\ open' = [open EXCEPT ![c] = TRUE]
               /\ pc' = [pc EXCEPT ![c] = "register"]
          ELSE /\ pc' = [pc EXCEPT ![c] = "done"]
               /\ UNCHANGED open
    /\ UNCHANGED <<process, dbVars, clients, mu, info, msg, inbox, quota,
                   hubVars, visited, httpVars>>

\* clients[conn] = true
wsRegister(c) ==
    /\ Running
    /\ pc[c] = "register"
    /\ \/ /\ clients' = clients \cup {c}
          /\ pc' = [pc EXCEPT ![c] = "read"]
          /\ UNCHANGED <<process, dbVars, mu, open, info, msg, inbox, quota,
                         hubVars, visited, httpVars>>
       \/ MapRace(c)

\* conn.ReadMessage(): the next frame of the client, or an error (the peer
\* left, or somebody closed the socket)
wsReadMessage(c) ==
    /\ Running
    /\ pc[c] = "read"
    /\ \/ /\ open[c]
          /\ quota > 0
          /\ quota' = quota - 1
          /\ \E t \in Contents :
                msg' = [msg EXCEPT ![c] = [NoMsg EXCEPT !.content = t]]
          /\ pc' = [pc EXCEPT ![c] = "range"]
       \/ /\ pc' = [pc EXCEPT ![c] = "deregister"]
          /\ UNCHANGED <<msg, quota>>
    /\ UNCHANGED <<process, dbVars, clients, mu, open, info, inbox, hubVars,
                   visited, httpVars>>

\* read error: delete(clients, conn); break; and the deferred conn.Close()
wsDelete(c) ==
    /\ Running
    /\ pc[c] = "deregister"
    /\ \/ /\ clients' = clients \ {c}
          /\ pc' = [pc EXCEPT ![c] = "done"]
          /\ open' = [open EXCEPT ![c] = FALSE]
          /\ UNCHANGED <<process, dbVars, mu, info, msg, inbox, quota,
                         hubVars, visited, httpVars>>
       \/ MapRace(c)

\* one iteration of `for client := range clients`: the handler's own
\* connection is skipped; client.WriteMessage puts the frame on another
\* connection, or fails, and then delete(clients, client); client.Close()
wsWriteMessage(c) ==
    /\ Running
    /\ pc[c] = "range"
    /\ \E d \in clients \ visited[c] :
          \/ /\ visited' = [visited EXCEPT ![c] = @ \cup {d}]
             /\ \/ /\ d = c
                   /\ UNCHANGED <<clients, open, inbox>>
                \/ /\ d # c
                   /\ open[d]
                   /\ inbox' = [inbox EXCEPT ![d] = Append(@, msg[c])]
                   /\ UNCHANGED <<clients, open>>
                \/ /\ d # c
                   /\ clients' = clients \ {d}
                   /\ open' = [open EXCEPT ![d] = FALSE]
                   /\ UNCHANGED inbox
             /\ UNCHANGED <<process, dbVars, mu, pc, info, msg, quota,
                            hubVars, httpVars>>
          \/ d # c /\ MapRace(c)

\* the range is exhausted: back to ReadMessage
wsRangeEnd(c) ==
    /\ Running
    /\ pc[c] = "range"
    /\ clients \subseteq visited[c]
    /\ pc' = [pc EXCEPT ![c] = "read"]
    /\ msg' = [msg EXCEPT ![c] = NoMsg]
    /\ visited' = [visited EXCEPT ![c] = {}]
    /\ UNCHANGED <<process, dbVars, clients, mu, open, info, inbox, quota,
                   hubVars, httpVars>>

handleWebSocket(c) ==
    \/ wsUpgrade(c)
    \/ wsRegister(c)
    \/ wsReadMessage(c)
    \/ wsDelete(c)
    \/ wsWriteMessage(c)
    \/ wsRangeEnd(c)

(* ------------------- CreateChatHandler, CloseChatHandler -------------- *)

OpenChatsOf(u) ==
    {i \in DOMAIN chats : chats[i].user_id = u /\ chats[i].status = "able"}

\* CreateChatSelect as it would be if the handler never looked for the
\* user's open chat
CreateChatSelect_AlwaysInsert(r) ==
    /\ Running
    /\ NextReq(r)
    /\ \E method \in {"POST", "GET"}, cookie \in Users \cup {NoCookie} :
          IF method # "POST"
          THEN req' = [req EXCEPT ![r] =
                  [pc |-> "done", user |-> cookie, chatID |-> 0, code |-> 405]]
          ELSE IF cookie = NoCookie
          THEN req' = [req EXCEPT ![r] =
                  [pc |-> "done", user |-> cookie, chatID |-> 0, code |-> 303]]
          ELSE req' = [req EXCEPT ![r] =
                  [pc |-> "insert", user |-> cookie, chatID |-> 0,
                   code |-> 0]]
    /\ UNCHANGED <<process, dbVars, clients, mu, connVars, inbox, hubVars,
                   closeResp>>
    /\ UNCHANGED visited

\* CreateChatHandler up to the SELECT: a request that is no POST gets 405,
\* one without the username cookie is redirected to /login; otherwise
\* SELECT id FROM chats WHERE user_id = $1 AND status = 'able' gives a row
\* (QueryRow keeps the first one the database returns), gives no row, or
\* fails.
CreateChatSelect(r) ==
    /\ Running
    /\ NextReq(r)
    /\ \E method \in {"POST", "GET"}, cookie \in Users \cup {NoCookie} :
          IF method # "POST"
          THEN req' = [req EXCEPT ![r] =
                  [pc |-> "done", user |-> cookie, chatID |-> 0, code |-> 405]]
          ELSE IF cookie = NoCookie
          THEN req' = [req EXCEPT ![r] =
                  [pc |-> "done", user |-> cookie, chatID |-> 0, code |-> 303]]
          ELSE \/ \E id \in OpenChatsOf(cookie) :
                     req' = [req EXCEPT ![r] =
                        [pc |-> "done", user |-> cookie, chatID |-> id,
                         code |-> 303]]
               \/ /\ OpenChatsOf(cookie) = {}
                  /\ req' = [req EXCEPT ![r] =
                        [pc |-> "insert", user |-> cookie, chatID |-> 0,
                         code |-> 0]]
               \/ req' = [req EXCEPT ![r] =
                     [pc |-> "done", user |-> cookie, chatID |-> 0,
                      code |-> 500]]
    /\ UNCHANGED <<process, dbVars, clients, mu, connVars, inbox, hubVars,
                   closeResp>>
    /\ UNCHANGED visited

\* CreateChatInsert as it would be if it took the user's closed chat back
\* into use instead of inserting a row
CreateChatInsert_Reopens(r) ==
    /\ Running
    /\ req[r].pc = "insert"
    /\ LET old == {i \in DOMAIN chats : chats[i].user_id = req[r].user}
       IN  IF old = {}
           THEN /\ chats' = Append(chats,
                       [user_id |-> req[r].user, status |-> "able"])
                /\ req' = [req EXCEPT ![r].pc = "done",
                                      ![r].chatID = Len(chats) + 1,
                                      ![r].code = 303]
           ELSE \E i \in old :
                   /\ chats' = [chats EXCEPT ![i].status = "able"]
                   /\ req' = [req EXCEPT ![r].pc = "done",
                                         ![r].chatID = i,
                                         ![r].code = 303]
    /\ UNCHANGED <<process, messages, clients, mu, connVars, inbox, hubVars,
                   closeResp>>
    /\ UNCHANGED visited

\* CreateChatHandler after sql.ErrNoRows:
\* INSERT INTO chats (user_id) VALUES ($1) RETURNING id. The status column
\* defaults to 'able'; the id is the next one of the SERIAL column.
CreateChatInsert(r) ==
    /\ Running
    /\ req[r].pc = "insert"
    /\ \/ /\ chats' = Append(chats,
                 [user_id |-> req[r].user, status |-> "able"])
          /\ req' = [req EXCEPT ![r].pc = "done",
                                ![r].chatID = Len(chats) + 1,
                                ![r].code = 303]
       \/ /\ req' = [req EXCEPT ![r].pc = "done", ![r].code = 500]
          /\ UNCHANGED chats
    /\ UNCHANGED <<process, messages, clients, mu, connVars, inbox, hubVars,
                   closeResp>>
    /\ UNCHANGED visited

\* the chat exists and has been closed
Closed(id) == id \in DOMAIN chats /\ chats[id].status = "disable"

\* CloseChat as it would be if the UPDATE flipped the status
CloseChat_Toggles(method, number, chatID, dbOk, actor) ==
    /\ Running
    /\ IF method # "POST"
       THEN closeResp' = Refused(405) /\ UNCHANGED chats
       ELSE IF ~number
       THEN closeResp' = Refused(400) /\ UNCHANGED chats
       ELSE IF ~dbOk
       THEN closeResp' = Refused(500) /\ UNCHANGED chats
       ELSE /\ closeResp' = [code |-> 303, chatID |-> chatID,
                              actor |-> actor, again |-> Closed(chatID)]
            /\ chats' = [i \in DOMAIN chats |->
                           IF i = chatID
                           THEN [chats[i] EXCEPT !.status =
                                    IF @ = "able" THEN "disable" ELSE "able"]
                           ELSE chats[i]]
    /\ UNCHANGED <<process, messages, clients, mu, connVars, inbox, hubVars,
                   req>>
    /\ UNCHANGED visited

\* CloseChatHandler on one request: 405 unless POST, 400 unless the path
\* ends in a number, then UPDATE chats SET status = 'disable' WHERE id = $1
\* (500 when it fails) and a redirect to /admin. Neither the caller nor the
\* number of rows updated is looked at, and the registry is not touched.
CloseChat(method, number, chatID, dbOk, actor) ==
    /\ Running
    /\ IF method # "POST"
       THEN closeResp' = Refused(405) /\ UNCHANGED chats
       ELSE IF ~number
       THEN closeResp' = Refused(400) /\ UNCHANGED chats
       ELSE IF ~dbOk
       THEN closeResp' = Refused(500) /\ UNCHANGED chats
       ELSE /\ closeResp' = [code |-> 303, chatID |-> chatID,
                              actor |-> actor, again |-> Closed(chatID)]
            /\ chats' = [i \in DOMAIN chats |->
                           IF i = chatID
                           THEN [chats[i] EXCEPT !.status = "disable"]
                           ELSE chats[i]]
    /\ UNCHANGED <<process, messages, clients, mu, connVars, inbox, hubVars,
                   req>>
    /\ UNCHANGED visited

\* CloseChatHandler under every request
CloseChatHandler ==
    \E method \in {"POST", "GET"}, number \in BOOLEAN, chatID \in CloseIds,
       dbOk \in BOOLEAN, actor \in Actors :
       CloseChat(method, number, chatID, dbOk, actor)

(* --------------------------- specification ---------------------------- *)

handleConnections(c) ==
    \/ Upgrade(c)
    \/ Register(c)
    \/ RegisterUnlock(c)
    \/ ReadJSON(c)
    \/ InsertMessage(c)
    \/ BroadcastSend(c)
    \/ Deregister(c)
    \/ DeregisterUnlock(c)

handleMessages ==
    \/ HubLock
    \/ \E c \in Conns : WriteJSON(c)
    \/ HubUnlock

CreateChatHandler(r) ==
    \/ CreateChatSelect(r)
    \/ CreateChatInsert(r)

Next ==
    \/ \E c \in Conns : handleConnections(c)
    \/ handleMessages
    \/ \E r \in Reqs : CreateChatHandler(r)
    \/ CloseChatHandler

\* the whole program, under every request
Spec == Init /\ [][Next]_vars

\* the chat lifecycle alone: /create-chat and /close-chat requests
NextChat ==
    \/ \E r \in Reqs : CreateChatHandler(r)
    \/ CloseChatHandler

SpecChat == Init /\ [][NextChat]_vars

\* /create-chat requests served one after the other: no request starts
\* while another is between its SELECT and its INSERT
SeqCreate(r) ==
    /\ \A q \in Reqs \ {r} : req[q].pc # "insert"
    /\ CreateChatHandler(r)

NextSeq ==
    \/ \E r \in Reqs : SeqCreate(r)
    \/ CloseChatHandler

SpecSeq == Init /\ [][NextSeq]_vars

\* the tables once users A and B have each created their chat
TwoChats ==
    /\ chats = <<[user_id |-> "A", status |-> "able"],
                 [user_id |-> "B", status |-> "able"]>>
    /\ messages = << >>

\* the websocket side: connections, frames and the hub
InitWs == Started(MaxFrames) /\ TwoChats

NextWs ==
    \/ \E c \in Conns : handleConnections(c)
    \/ handleMessages

SpecWs == InitWs /\ [][NextWs]_vars

\* the websocket side under the Go scheduler: a goroutine that can run
\* does run; a goroutine waiting at mu.Lock() or at the channel gets its
\* turn (the mutex hands over to starved waiters, the channel queues its
\* senders in order); a WriteJSON returns. Clients are free to send or
\* not, and to leave or not.
FairWs ==
    /\ SpecWs
    /\ SF_vars(HubLock)
    /\ WF_vars(\E c \in Conns : WriteJSON(c))
    /\ WF_vars(HubUnlock)
    /\ \A c \in Conns :
          /\ SF_vars(BroadcastSend(c))
          /\ WF_vars(InsertMessage(c))
          /\ WF_vars(RegisterUnlock(c))
          /\ WF_vars(DeregisterUnlock(c))

\* the program of templates/index.html: its /ws handlers, with clients
\* that send one frame more
InitIndex ==
    /\ Started(MaxFrames + 1)
    /\ chats = << >>
    /\ messages = << >>

NextIndex == \E c \in Conns : handleWebSocket(c)

SpecIndex == InitIndex /\ [][NextIndex]_vars

\* the websocket side on the tables initDB has just created: no chat yet
SpecWsFresh == Init /\ [][NextWs]_vars

\* the websocket side with one frame more, for the order of two messages
InitOrder == Started(MaxFrames + 1) /\ TwoChats

SpecOrder == InitOrder /\ [][NextWs]_vars

\* staff closes chats from the admin panel
StaffCloses ==
    \E chatID \in ChatIds : CloseChat("POST", TRUE, chatID, TRUE, "admin")

\* the websocket side while staff closes chats
NextClose ==
    \/ NextWs
    \/ StaffCloses

SpecClose == InitWs /\ [][NextClose]_vars

TypeOK ==
    /\ process \in {"running", "exited"}
    /\ clients \subseteq Conns
    /\ mu \in {Free, Hub} \cup Conns
    /\ quota \in Nat
    /\ hubPc \in {"recv", "lock", "range", "done"}

(* ------------------------------ properties ---------------------------- *)

Last(s) == s[Len(s)]

\* a text that is empty once trimmed: no character but blanks
IsBlank(s) == \A i \in DOMAIN s : s[i] = " "

\* whom the design addresses a message to: every staff connection, and the
\* customer connection of the message's chat
Recipient(c, m) ==
    \/ info[c].role = "admin"
    \/ info[c].role = "user" /\ info[c].chat = m.chatId

\* the hub has visited every key of the registry and is about to unlock
FanOutDone == hubPc = "range" /\ clients \subseteq ranged

Got(c, m) == inbox[c] # << >> /\ Last(inbox[c]) = m

\* C1: at most one chat with status 'able' exists per owning user, in every
\* reachable state, whatever the interleaving of that user's /create-chat
\* requests.
C1_OneOpenChatPerUser ==
    \A u \in Users : Cardinality(OpenChatsOf(u)) <= 1

\* C2: two messages of one chat that were both stored reach every
\* connection that gets both in the order of their rows in the messages
\* table.
C2_DeliveredInPersistOrder ==
    \A c \in Conns : \A i, j \in DOMAIN inbox[c] :
        ( /\ i < j
          /\ inbox[c][i].chatId = inbox[c][j].chatId
          /\ inbox[c][i].row > 0
          /\ inbox[c][j].row > 0 )
        => inbox[c][i].row < inbox[c][j].row

\* C3: a /close-chat request that closes chat C leaves no connection bound
\* to C in the registry.
C3_CloseDeregisters ==
    [][ \A id \in DOMAIN chats :
          (chats[id].status = "able" /\ chats'[id].status = "disable")
          => \A c \in clients' : info'[c].chat # id ]_vars

\* C4: once a chat is closed, no message with its chat id is stored in the
\* messages table and none is taken by the hub for dispatch.
C4_NoTrafficIntoClosedChat ==
    [][ /\ Len(messages') > Len(messages)
           => ~Closed(Last(messages').chat_id)
        /\ (hubPc = "recv" /\ hubPc' = "lock")
           => ~Closed(hubMsg'.chatId) ]_vars

\* C5: when the hub has finished the fan-out of a message, every staff
\* connection and the customer connection of the message's chat that were
\* in the registry during the fan-out have been written the message, but for
\* those whose write failed, which are closed and out of the registry.
C5_DispatchReachesRecipients ==
    FanOutDone =>
        \A c \in ranged : Recipient(c, hubMsg) =>
            \/ c \in clients /\ Got(c, hubMsg)
            \/ c \notin clients /\ ~open[c]

\* a fan-out ends with a stored message written to a staff connection and to
\* the customer connection of its chat
C5_Witness ==
    /\ FanOutDone
    /\ hubMsg.row > 0
    /\ \E c, d \in clients :
          /\ info[c].role = "admin" /\ Got(c, hubMsg)
          /\ info[d].role = "user" /\ info[d].chat = hubMsg.chatId
          /\ Got(d, hubMsg)

\* C6: a customer connection is written only messages of the chat it is
\* bound to.
C6_CustomerGetsOwnChatOnly ==
    \A c \in Conns : info[c].role = "user" =>
        \A i \in DOMAIN inbox[c] : inbox[c][i].chatId = info[c].chat

\* a write has failed in this step: the range loop visits one more key and
\* the registry changes
WriteFails ==
    /\ hubPc = "range"
    /\ ranged \subseteq ranged' /\ ranged' # ranged
    /\ clients' # clients

\* C7: a failed write during a fan-out removes that one connection from the
\* registry and nothing else happens: the loop goes on over the keys not yet
\* visited, no handler (the sender included) changes position, the process
\* keeps running; and at the end of the fan-out every other connection of
\* the registry has been written the message.
C7_FailedWriteIsLocal ==
    /\ [](FanOutDone => \A c \in clients : Got(c, hubMsg))
    /\ [][ WriteFails =>
             /\ \E c \in clients \ ranged :
                   /\ clients' = clients \ {c}
                   /\ ranged' = ranged \cup {c}
             /\ hubPc' = "range"
             /\ hubMsg' = hubMsg
             /\ inbox' = inbox
             /\ pc' = pc
             /\ process' = "running" ]_vars

\* a fan-out ends in which one write failed and another connection got the
\* message
C7_Witness ==
    /\ FanOutDone
    /\ ranged \ clients # {}
    /\ \E c \in clients : Got(c, hubMsg)

\* C8: a frame whose content is empty or only whitespace is neither stored
\* nor handed to the hub.
C8_BlankFrameDiscarded ==
    /\ \A i \in DOMAIN messages : ~IsBlank(messages[i].content)
    /\ hubPc \in {"lock", "range"} => ~IsBlank(hubMsg.content)

\* C9: no failure in the chat subsystem ends the process.
C9_NoErrorIsFatal == process = "running"

\* C10: a customer connection in the registry belongs to a request that
\* carried an authenticated session.
C10_RegisteredOnlyWithSession ==
    \A c \in clients : info[c].role = "user" => info[c].session

\* C11: every message a customer's handler stores and hands to the hub
\* carries the chat id of that connection, not one the client chose in the
\* frame.
C11_ServerResolvedChatId ==
    [][ \A c \in Conns : info[c].role = "user" =>
          /\ (pc[c] = "insert" /\ pc'[c] = "send"
              /\ Len(messages') > Len(messages))
             => Last(messages').chat_id = info[c].chat
          /\ (pc[c] = "send" /\ pc'[c] = "read" /\ hubPc' = "lock")
             => hubMsg'.chatId = info[c].chat ]_vars

\* a /close-chat request has been answered in this step
CloseAnswered == closeResp' # closeResp /\ process' = "running"

\* C12: a /close-chat request that names an id no chat has is answered
\* NotFound, and no chat's status changes.
C12_UnknownIdIsNotFound ==
    [][ ( /\ CloseAnswered
          /\ closeResp'.chatID # 0
          /\ closeResp'.chatID \notin DOMAIN chats )
        => closeResp'.code = 404 /\ chats' = chats ]_vars

\* C13: a /close-chat request that gets to its redirect for an existing
\* chat leaves that chat closed, the first time and every time after; when
\* the chat was closed already the request changes no row, and no
\* /create-chat request is touched.
C13_CloseIsIdempotent ==
    [][ ( /\ CloseAnswered
          /\ closeResp'.code = 303
          /\ closeResp'.chatID \in DOMAIN chats )
        => /\ DOMAIN chats' = DOMAIN chats
           /\ chats'[closeResp'.chatID].status = "disable"
           /\ closeResp'.again => chats' = chats
           /\ req' = req ]_vars

\* a second close of a chat has been answered with the redirect, and the
\* chat is closed
C13_Witness ==
    /\ closeResp.code = 303
    /\ closeResp.again
    /\ Closed(closeResp.chatID)

\* C16: a chat's status changes to closed only in a /close-chat request
\* sent by the chat's owner or by staff.
C16_OnlyOwnerOrStaffCloses ==
    [][ \A id \in DOMAIN chats :
          (chats[id].status = "able" /\ chats'[id].status = "disable")
          => closeResp'.actor \in {"admin", chats[id].user_id} ]_vars

\* C14: a closed chat stays closed and keeps its owner whatever request is
\* served next, and a chat created later gets an id no chat has yet: the
\* table only grows, by the row of the new id.
C14_ClosedIsTerminal ==
    [][ /\ \A id \in DOMAIN chats :
             /\ id \in DOMAIN chats'
             /\ chats'[id].user_id = chats[id].user_id
             /\ Closed(id) => chats'[id].status = "disable"
        /\ \A r \in Reqs :
             (req[r].pc = "insert" /\ req'[r].code = 303)
             => /\ req'[r].chatID \notin DOMAIN chats
                /\ DOMAIN chats' = DOMAIN chats \cup {req'[r].chatID}
                /\ chats'[req'[r].chatID] =
                      [user_id |-> req[r].user, status |-> "able"] ]_vars

\* a user has a closed chat and a chat created after it that is open
C14_Witness ==
    \E i, j \in DOMAIN chats, r \in Reqs :
       /\ i < j
       /\ chats[i].user_id = chats[j].user_id
       /\ Closed(i)
       /\ chats[j].status = "able"
       /\ req[r].pc = "done" /\ req[r].chatID = j

\* C15: with /create-chat requests served one after the other, a user
\* never has two open chats; a request of a user who has an open chat
\* answers with that chat's id and adds no row; a request of a user who
\* has none adds exactly one row, open and owned by the user, and answers
\* with its id; so the next request of that user gets the same id while
\* the chat is open. (Requests the database fails are answered 500.)
C15_SequentialCreate ==
    /\ [](\A u \in Users : Cardinality(OpenChatsOf(u)) <= 1)
    /\ [](\A r \in Reqs :
            ( /\ r + 1 \in Reqs
              /\ req[r].pc = "done" /\ req[r + 1].pc = "done"
              /\ req[r].user = req[r + 1].user
              /\ req[r].code = 303 /\ req[r + 1].code = 303
              /\ req[r].chatID \in OpenChatsOf(req[r].user) )
            => req[r + 1].chatID = req[r].chatID)
    /\ [][ \A r \in Reqs :
             /\ ( /\ req[r].pc = "idle" /\ req'[r].pc # "idle"
                  /\ req'[r].user \in Users
                  /\ req'[r].code \notin {405, 500} )
                => /\ chats' = chats
                   /\ IF OpenChatsOf(req'[r].user) # {}
                      THEN /\ req'[r].pc = "done"
                           /\ req'[r].code = 303
                           /\ req'[r].chatID \in OpenChatsOf(req'[r].user)
                      ELSE req'[r].pc = "insert"
             /\ ( /\ req[r].pc = "insert" /\ req'[r].pc = "done"
                  /\ req'[r].code = 303 )
                => /\ chats' = Append(chats, [user_id |-> req[r].user,
                                              status |-> "able"])
                   /\ req'[r].chatID = Len(chats') ]_vars

\* a user's second request has been answered with the id of the chat the
\* first one created
C15_Witness ==
    \E r \in Reqs :
       /\ r + 1 \in Reqs
       /\ req[r].pc = "done" /\ req[r + 1].pc = "done"
       /\ req[r].user = req[r + 1].user
       /\ req[r].chatID = Len(chats)
       /\ req[r + 1].chatID = req[r].chatID
       /\ req[r].chatID \in OpenChatsOf(req[r].user)

\* C17: every row of the messages table carries the id of a chat the chats
\* table has; an INSERT naming any other chat id stores nothing.
C17_MessagesReferenceChats ==
    \A i \in DOMAIN messages : messages[i].chat_id \in DOMAIN chats

\* C18: a handler that serves a connection ends only by the step that
\* follows its deregistration, which a failed read starts; so the
\* connection of a handler that has ended is not in the registry.
C18_ReadFailureOnlyEnd ==
    /\ [](\A c \in Conns : pc[c] = "done" => c \notin clients)
    /\ [][ \A c \in Conns :
             /\ (pc[c] \notin {"idle", "done"} /\ pc'[c] = "done")
                => pc[c] = "deregistered" /\ c \notin clients
             /\ (pc[c] # "deregister" /\ pc'[c] = "deregister")
                => pc[c] = "read" ]_vars

\* C19: the step of a handler whose INSERT stores nothing leaves the
\* connection registered and open and takes the handler on to its send,
\* from where it only goes back to reading.
C19_FailedInsertGoesOn ==
    [][ \A c \in Conns :
          /\ ( /\ pc[c] = "insert" /\ pc'[c] # "insert"
               /\ messages' = messages
               /\ process' = "running" )
             => /\ pc'[c] = "send"
                /\ clients' = clients
                /\ open' = open
          /\ ( /\ pc[c] = "send" /\ pc'[c] # "send"
               /\ process' = "running" )
             => /\ pc'[c] = "read"
                /\ clients' = clients
                /\ open' = open ]_vars

\* a message whose INSERT failed has gone to the hub, and its sender is
\* registered, open and reading again
C19_Witness ==
    /\ hubMsg # NoMsg
    /\ hubMsg.row = 0
    /\ messages = << >>
    /\ \E c \in clients :
          /\ pc[c] = "read"
          /\ open[c]
          /\ info[c].role = hubMsg.sender

\* C20: whatever fetchMessages returns for a chat holds every row of the
\* chat once, in the order the rows were appended, and with timestamps
\* that never decrease, also when two rows have the same timestamp.
C20_HistoryInAppendOrder ==
    \A chatID \in ChatIds : \A s \in fetchMessages(chatID) :
       /\ {s[i] : i \in DOMAIN s} = RowsOf(chatID)
       /\ \A i, j \in DOMAIN s :
             i < j => /\ s[i] < s[j]
                      /\ messages[s[i]].timestamp <= messages[s[j]].timestamp

\* C21: the first frame the server writes on a customer connection is the
\* chat id resolved for the caller; no chat message comes before it.
C21_ChatIdFrameFirst ==
    \A c \in Conns :
       (info[c].role = "user" /\ inbox[c] # << >>)
       => inbox[c][1] = [chatID |-> info[c].chat]

\* C22: no two open customer connections of one chat are in the registry
\* at the same time.
C22_OneCustomerPerChat ==
    \A c, d \in clients :
       ( /\ c # d
         /\ open[c] /\ open[d]
         /\ info[c].role = "user" /\ info[d].role = "user" )
       => info[c].chat # info[d].chat

\* C25: the hub does not hold the registry lock in a step in which it
\* writes to a connection.
C25_WritesOutsideLock ==
    [][ (hubPc = "range" /\ ranged' # ranged /\ process' = "running")
        => mu # Hub ]_vars

\* C29: every message on a connection is one whose INSERT stored a row,
\* and that row holds the message.
C29_DeliveredWasStored ==
    \A c \in Conns : \A i \in DOMAIN inbox[c] :
       /\ inbox[c][i].row \in DOMAIN messages
       /\ messages[inbox[c][i].row].content = inbox[c][i].content

\* the tasks that are inside a read or a mutation of the clients map
InMap ==
    {c \in Conns : pc[c] \in {"registered", "deregistered"}}
       \cup (IF hubPc = "range" THEN {Hub} ELSE {})

\* C23: the row a handler appended for a frame is in every result of
\* fetchMessages for the frame's chat, and it has the chat id, sender and
\* content of the frame.
C23_RoundTrip ==
    \A c \in Conns :
       (pc[c] = "send" /\ msg[c].row # 0)
       => /\ \A s \in fetchMessages(msg[c].chatId) :
                \E i \in DOMAIN s : s[i] = msg[c].row
          /\ messages[msg[c].row].chat_id = msg[c].chatId
          /\ messages[msg[c].row].sender = msg[c].sender
          /\ messages[msg[c].row].content = msg[c].content

\* a handler has appended the second row of a chat and not yet sent it on
C23_Witness ==
    \E c \in Conns :
       /\ pc[c] = "send"
       /\ msg[c].row = 2
       /\ Cardinality(RowsOf(msg[c].chatId)) = 2
       /\ msg[c].content # << >>

\* C24: at most one task is inside a read or a mutation of the clients map
\* at a time, and it is the one that holds mu; the map changes in no step
\* of a task that does not hold mu.
C24_MapAccessExclusive ==
    /\ [](Cardinality(InMap) <= 1 /\ \A t \in InMap : mu = t)
    /\ [][ (clients' # clients /\ process' = "running")
           => (mu' \in Conns \/ mu = Hub) ]_vars

\* the hub is in its range loop while a handler waits to register and
\* another waits to deregister
C24_Witness ==
    /\ hubPc = "range"
    /\ \E c, d \in Conns : pc[c] = "register" /\ pc[d] = "deregister"

\* C27: a handler's delete of its connection removes that connection and
\* no other, and changes nothing when the hub has removed it already; a
\* failed write of the hub removes the connection written to and no other.
C27_DeregisterIdempotent ==
    [][ /\ \A c \in Conns :
             (pc[c] = "deregister" /\ pc'[c] = "deregistered")
             => /\ clients' = clients \ {c}
                /\ c \notin clients => clients' = clients
        /\ WriteFails
           => \E c \in clients :
                 /\ ranged' = ranged \cup {c}
                 /\ clients' = clients \ {c} ]_vars

\* the hub removed a connection after a failed write, then the
\* connection's handler deleted it again, and the other connection is
\* still registered
C27_Witness ==
    \E c \in Conns :
       /\ pc[c] = "deregistered"
       /\ ~open[c]
       /\ c \notin clients
       /\ clients # {}

\* C30: a frame is put on a connection only in a step of the hub's range
\* loop, one connection at a time; no step of a handler puts a frame on
\* any connection.
C30_OnlyHubWrites ==
    [][ (\E c \in Conns : Len(inbox'[c]) > Len(inbox[c]))
        => /\ hubPc = "range" /\ mu = Hub
           /\ pc' = pc
           /\ \E c \in clients \ ranged :
                 /\ inbox' = [inbox EXCEPT ![c] = Append(@, hubMsg)]
                 /\ ranged' = ranged \cup {c} ]_vars

\* the hub has written a frame to a connection whose handler is reading,
\* and is about to write to the other connection
C30_Witness ==
    \E c \in Conns :
       /\ inbox[c] # << >>
       /\ pc[c] = "read"
       /\ hubPc = "range"
       /\ clients \ ranged # {}

\* C26: a handler that has a message to submit gets it taken by the hub,
\* and the hub fans every message it took out to the end and comes back
\* to the channel; no message is dropped on the way.
C26_SubmittedIsFannedOut ==
    /\ \A c \in Conns : (pc[c] = "send") ~> (pc[c] = "read")
    /\ (hubPc = "lock") ~> (hubPc = "recv")

\* C28: in the handleWebSocket program no two handlers are inside their
\* range loop over clients at the same time, and no handler registers,
\* deletes or removes a key while another handler is inside its range loop.
C28_VariantSerialized ==
    /\ [](Cardinality({c \in Conns : pc[c] = "range"}) <= 1)
    /\ [][ \A c \in Conns :
             (pc[c] \in {"register", "deregister", "range"} /\ clients' # clients)
             => Ranging(c) = {} ]_vars

====
